---- MODULE Spec2Model ----
(***************************************************************************)
(* Model of Serial_Multiport_Command_Automation_Tool.py: four              *)
(* SerialPortFrame sessions, each with a serial handle, a `running` flag,  *)
(* listener threads (listen_serial) and sequence threads (send_sequence),  *)
(* driven by the GUI handlers toggle_connection, execute_profile and       *)
(* SerialLoggerApp.close.                                                  *)
(*                                                                         *)
(* Strings are sequences of Unicode code points, bytes are 0..255.         *)
(* A GUI handler runs to completion on the Tk main thread and is one       *)
(* action; a worker thread is a little process whose steps interleave      *)
(* with the handlers and with each other.                                  *)
(***************************************************************************)
EXTENDS Integers, Sequences, FiniteSets, TLC

(* ---------------------------- bounds ----------------------------------- *)
\* Threads started over the whole behaviour: one listen_serial thread per
\* successful connect, one send_sequence thread per accepted execute.
MaxThreads == 3
\* SerialPortFrame objects modelled. The program builds four identical ones
\* (for i in range(4)); they share nothing but the profiles dict.
NumSessions == 2

(* ------------------------- program constants --------------------------- *)
\* tk.StringVar(value="9600"): the default baud entry, as code points.
DefaultBaud == <<57, 54, 48, 48>>

Sessions == 1..NumSessions

(* ------------------------------ strings -------------------------------- *)
CR == 13
LF == 10

\* Python str.isspace for the ASCII range (what int() and fromhex() skip).
IsSpace(c) == c \in {9, 10, 11, 12, 13, 32}

IsDigit(c) == c \in 48..57

\* _PyLong_DigitValue restricted to base 16: -1 when c is no hex digit.
HexVal(c) ==
    IF c \in 48..57 THEN c - 48
    ELSE IF c \in 65..70 THEN c - 55
    ELSE IF c \in 97..102 THEN c - 87
    ELSE -1

\* bytes.fromhex(cmd): ASCII whitespace before a digit pair is skipped, a
\* pair must be two hex digits; anything else raises ValueError.
RECURSIVE FromHexAt(_, _, _)
FromHexAt(str, i, acc) ==
    IF i > Len(str) THEN [ok |-> TRUE, bytes |-> acc]
    ELSE IF IsSpace(str[i]) THEN FromHexAt(str, i + 1, acc)
    ELSE IF i + 1 > Len(str) \/ HexVal(str[i]) < 0 \/ HexVal(str[i + 1]) < 0
         THEN [ok |-> FALSE, bytes |-> <<>>]
    ELSE FromHexAt(str, i + 2, Append(acc, 16 * HexVal(str[i]) + HexVal(str[i + 1])))

\* Faulty variant: an odd trailing character is dropped instead of raising.
FromHexTruncating(str) ==
    FromHexAt(SubSeq(str, 1, Len(str) - (Len(str) % 2)), 1, <<>>)

FromHex(str) == FromHexAt(str, 1, <<>>)

\* str.encode(): UTF-8 of one code point (one or two byte forms).
Utf8(cp) ==
    IF cp < 128 THEN <<cp>>
    ELSE <<192 + (cp \div 64), 128 + (cp % 64)>>

RECURSIVE Encode(_)
Encode(str) ==
    IF str = <<>> THEN <<>> ELSE Utf8(Head(str)) \o Encode(Tail(str))

\* Faulty variant: the terminator is not appended.
EncodeTextBare(cmd) == Encode(cmd)

\* (cmd + "\r\n").encode()
EncodeText(cmd) == Encode(cmd \o <<CR, LF>>)

(* int(self.baud_var.get()) *)
RECURSIVE LStrip(_)
LStrip(str) ==
    IF str # <<>> /\ IsSpace(Head(str)) THEN LStrip(Tail(str)) ELSE str

RECURSIVE RStrip(_)
RStrip(str) ==
    IF str # <<>> /\ IsSpace(str[Len(str)])
    THEN RStrip(SubSeq(str, 1, Len(str) - 1))
    ELSE str

\* Digits with single underscores between them.
DigitsOk(str) ==
    /\ str # <<>>
    /\ IsDigit(str[1])
    /\ IsDigit(str[Len(str)])
    /\ \A k \in 1..Len(str) : IsDigit(str[k]) \/ str[k] = 95
    /\ \A k \in 1..(Len(str) - 1) : ~(str[k] = 95 /\ str[k + 1] = 95)

RECURSIVE DigitsVal(_, _)
DigitsVal(str, acc) ==
    IF str = <<>> THEN acc
    ELSE IF Head(str) = 95 THEN DigitsVal(Tail(str), acc)
    ELSE DigitsVal(Tail(str), 10 * acc + (Head(str) - 48))

\* Faulty variant: the leading digits are taken and the rest is ignored.
ParseIntPrefix(str) ==
    LET t == LStrip(str)
    IN  IF t # <<>> /\ IsDigit(t[1])
        THEN [ok |-> TRUE, val |-> DigitsVal(SelectSeq(t, IsDigit), 0)]
        ELSE [ok |-> FALSE, val |-> 0]

ParseInt(str) ==
    LET t == RStrip(LStrip(str))
        signed == t # <<>> /\ t[1] \in {43, 45}
        body == IF signed THEN Tail(t) ELSE t
    IN  IF DigitsOk(body)
        THEN [ok |-> TRUE,
              val |-> IF signed /\ t[1] = 45 THEN 0 - DigitsVal(body, 0)
                      ELSE DigitsVal(body, 0)]
        ELSE [ok |-> FALSE, val |-> 0]

(* ------------------------------ inputs --------------------------------- *)
\* Devices serial.tools.list_ports.comports() shows. refresh_ports() selects
\* ports[0] in every frame, so the frames contend for the same device.
Devices == {"COM1"}
\* What the port combobox can hold: a listed device or nothing.
PortInputs == Devices \cup {""}
\* What the baud entry can hold: "9600", "96x", "-1", "".
BaudInputs == {DefaultBaud, <<57, 54, 120>>, <<45, 49>>, <<>>}

\* Profiles a profiles.json can hold: "text" sends PING then STATUS, "neg"
\* has a negative delay on its first step, "hex" has the odd-length A1B
\* between A1B2 and FF, "hexws" has "a1 B2" and then "G1", "empty" has no
\* step.
ProfileOf(n) ==
        CASE n = "text" ->
               [steps |-> <<[cmd |-> <<80, 73, 78, 71>>, delay |-> 0],
                            [cmd |-> <<83, 84, 65, 84, 85, 83>>, delay |-> 1]>>,
                is_hex |-> FALSE]
          [] n = "neg" ->
               [steps |-> <<[cmd |-> <<233>>, delay |-> -1],
                            [cmd |-> <<80, 73, 78, 71>>, delay |-> 0]>>,
                is_hex |-> FALSE]
          [] n = "hex" ->
               [steps |-> <<[cmd |-> <<65, 49, 66, 50>>, delay |-> 0],
                            [cmd |-> <<65, 49, 66>>, delay |-> 0],
                            [cmd |-> <<70, 70>>, delay |-> 0]>>,
                is_hex |-> TRUE]
          [] n = "hexws" ->
               [steps |-> <<[cmd |-> <<97, 49, 32, 66, 50>>, delay |-> 0],
                            [cmd |-> <<71, 49>>, delay |-> 0]>>,
                is_hex |-> TRUE]
          [] OTHER -> [steps |-> <<>>, is_hex |-> FALSE]

ProfileNames == {"text", "neg", "hex", "hexws", "empty"}

\* load_profiles(): the dict read from profiles.json, here one profile.
StoredProfiles == {[n \in {name} |-> ProfileOf(name)] : name \in ProfileNames}

\* What the profile combobox can hold (it is editable): any name.
ProfileInputs == ProfileNames

(* ------------------------------- state --------------------------------- *)
VARIABLES
    running,      \* self.running of each frame
    serial_port,  \* self.serial_port of each frame: 0 (None) or a handle
    handles,      \* every serial.Serial object created, in creation order
    listeners,    \* every listen_serial thread started
    runs,         \* every send_sequence thread started
    log,          \* output_text of each frame: the lines the handlers log
                  \* (a thread's lines are kept with the thread, in
                  \* listeners[l].events and runs[r].events)
    dialog,       \* title of the messagebox the last handler showed
    profiles,     \* the shared profiles dict
    destroyed,    \* root.destroy() was called: the process has exited
    disk,         \* what profiles.json holds
    ident,        \* which dict object each entry of profiles is (a profile
                  \* dict and its "steps" list are created together)
    created,      \* number of profile dict objects created so far
    editors       \* every editor window edit_profile has opened

\* The profile store and what refers to it.
pvars == <<profiles, disk, ident, created, editors>>

vars == <<running, serial_port, handles, listeners, runs, log, dialog,
          destroyed, pvars>>

Init ==
    /\ running = [s \in Sessions |-> FALSE]
    /\ serial_port = [s \in Sessions |-> 0]
    /\ handles = <<>>
    /\ listeners = <<>>
    /\ runs = <<>>
    /\ log = [s \in Sessions |-> <<>>]
    /\ dialog = "none"
    /\ profiles \in StoredProfiles
    /\ destroyed = FALSE
    /\ disk = profiles
    /\ ident = [n \in DOMAIN profiles |-> 1]
    /\ created = 1
    /\ editors = <<>>

\* Faulty variant: is_open is not looked at.
PortIsSet(s) == serial_port[s] # 0

\* self.serial_port and self.serial_port.is_open
PortIsOpen(s) == serial_port[s] # 0 /\ handles[serial_port[s]].is_open

Log(s, events) == [log EXCEPT ![s] = log[s] \o events]

\* Faulty variant: the handles are left open.
CloseHandlesNot(hs) == handles

\* Faulty variant: one close closes every handle of the process (the handle
\* kept in a class attribute shared by the frames).
CloseHandlesEvery(hs) ==
    IF hs = {} THEN handles
    ELSE [h \in DOMAIN handles |->
            IF handles[h].is_open
            THEN [handles[h] EXCEPT !.is_open = FALSE, !.closes = @ + 1]
            ELSE handles[h]]

\* serial_port.close() on the handles in hs.
CloseHandles(hs) ==
    [h \in DOMAIN handles |->
        IF h \in hs
        THEN [handles[h] EXCEPT !.is_open = FALSE, !.closes = @ + 1]
        ELSE handles[h]]

(* ------------------------- connect / disconnect ------------------------ *)
\* serial.Serial(port, baudrate=baud, ...): a negative baud or an unknown
\* device raises; a device another open handle holds, or baud 0, opens or
\* raises depending on the platform.
SerialOpen(port, baud) ==
    IF baud < 0 \/ port \notin Devices THEN {"raise"}
    ELSE IF baud = 0 \/ \E h \in DOMAIN handles :
                            handles[h].port = port /\ handles[h].is_open
         THEN {"ok", "raise"}
    ELSE {"ok"}

ConnectPort(s, port, baudstr) ==
    LET baud == ParseInt(baudstr) IN
    \E out \in (IF baud.ok THEN SerialOpen(port, baud.val) ELSE {"raise"}) :
        IF out = "ok"
        THEN /\ Len(listeners) + Len(runs) < MaxThreads
             /\ handles' = Append(handles,
                    [sess |-> s, port |-> port, baud |-> baud.val,
                     is_open |-> TRUE, closes |-> 0, wire |-> <<>>])
             /\ serial_port' = [serial_port EXCEPT ![s] = Len(handles) + 1]
             /\ running' = [running EXCEPT ![s] = TRUE]
             /\ listeners' = Append(listeners,
                    [sess |-> s, pc |-> "check", events |-> <<>>])
             /\ log' = Log(s, <<"connect">>)
             /\ dialog' = "none"
             /\ UNCHANGED <<runs, pvars, destroyed>>
        ELSE /\ dialog' = "Connection Error"
             /\ UNCHANGED <<running, serial_port, handles, listeners, runs,
                            log, pvars, destroyed>>

\* Faulty variant: the port is closed but running is left True.
DisconnectPortKeepsFlag(s) ==
    /\ handles' = CloseHandles(IF PortIsOpen(s) THEN {serial_port[s]} ELSE {})
    /\ log' = Log(s, <<"disconnect">>)
    /\ dialog' = "none"
    /\ UNCHANGED <<running, serial_port, listeners, runs, pvars, destroyed>>

DisconnectPort(s) ==
    /\ running' = [running EXCEPT ![s] = FALSE]
    /\ handles' = CloseHandles(IF PortIsOpen(s) THEN {serial_port[s]} ELSE {})
    /\ log' = Log(s, <<"disconnect">>)
    /\ dialog' = "none"
    /\ UNCHANGED <<serial_port, listeners, runs, pvars, destroyed>>

ToggleConnection(s) ==
    /\ ~destroyed
    /\ IF running[s]
       THEN DisconnectPort(s)
       ELSE \E port \in PortInputs, baudstr \in BaudInputs :
                ConnectPort(s, port, baudstr)

(* ------------------------------ listener ------------------------------- *)
\* self.serial_port.read(self.serial_port.in_waiting or 1): raises on a
\* closed port; on an open one returns (data or, on timeout, nothing) or
\* raises (I/O failure). The "RX" lines logged for received data are not
\* kept: a listener may log any number of them.
ReadOutcomes(l) ==
    IF ~PortIsOpen(listeners[l].sess) THEN {"raise"} ELSE {"return", "raise"}

\* Faulty variant: a read error is logged and the loop goes on (no break).
ListenSerialRetrying(l) ==
    LET s == listeners[l].sess IN
    /\ ~destroyed
    /\ \/ /\ listeners[l].pc = "check"
          /\ listeners' = [listeners EXCEPT ![l].pc =
                 IF running[s] /\ PortIsOpen(s) THEN "read" ELSE "done"]
       \/ /\ listeners[l].pc = "read"
          /\ \E out \in ReadOutcomes(l) :
                listeners' = [listeners EXCEPT
                    ![l].events = IF out = "raise"
                                  THEN Append(@, "listen_error") ELSE @,
                    ![l].pc = "check"]
    /\ UNCHANGED <<running, serial_port, handles, runs, log, dialog,
                   pvars, destroyed>>

ListenSerial(l) ==
    LET s == listeners[l].sess IN
    /\ ~destroyed
    /\ \/ /\ listeners[l].pc = "check"
          /\ listeners' = [listeners EXCEPT ![l].pc =
                 IF running[s] /\ PortIsOpen(s) THEN "read" ELSE "done"]
       \/ /\ listeners[l].pc = "read"
          /\ \E out \in ReadOutcomes(l) :
                listeners' = [listeners EXCEPT
                    ![l].events = IF out = "raise"
                                  THEN Append(@, "listen_error") ELSE @,
                    ![l].pc = IF out = "raise" THEN "done" ELSE "check"]
    /\ UNCHANGED <<running, serial_port, handles, runs, log, dialog,
                   pvars, destroyed>>

(* ------------------------------ executor ------------------------------- *)
\* The thread is handed the profile's own steps list, not a copy: obj is the
\* object it holds, steps the content of that object, steps0 its content
\* when the thread was started.
ExecuteProfile(s, name) ==
    /\ ~destroyed
    /\ IF name \notin DOMAIN profiles
       THEN /\ dialog' = "Profile Error"
            /\ UNCHANGED runs
       ELSE IF ~PortIsOpen(s)
       THEN /\ dialog' = "Port Error"
            /\ UNCHANGED runs
       ELSE /\ Len(listeners) + Len(runs) < MaxThreads
            /\ runs' = Append(runs,
                   [sess |-> s, steps |-> profiles[name].steps,
                    is_hex |-> profiles[name].is_hex, i |-> 1, pc |-> "step",
                    h0 |-> serial_port[s], sent |-> <<>>, events |-> <<>>,
                    obj |-> ident[name], steps0 |-> profiles[name].steps])
            /\ dialog' = "none"
    /\ UNCHANGED <<running, serial_port, handles, listeners, log, pvars,
                   destroyed>>

\* bytes_to_send of a step: fromhex(cmd) or (cmd + "\r\n").encode().
BytesToSend(is_hex, cmd) ==
    IF is_hex THEN FromHex(cmd) ELSE [ok |-> TRUE, bytes |-> EncodeText(cmd)]

\* self.serial_port.write(data): raises on a closed port; on an open one
\* writes or raises (I/O failure).
WriteOutcomes(s) == IF PortIsOpen(s) THEN {"ok", "raise"} ELSE {"raise"}

\* Faulty variant: a failed write is logged and the loop goes on with the
\* next step (no break).
SendSequenceContinuing(r) ==
    LET run == runs[r]
        s == run.sess
        abort == <<"error", "complete">>
    IN
    /\ ~destroyed
    /\ \/ /\ run.pc = "step"
          /\ run.i > Len(run.steps)
          /\ runs' = [runs EXCEPT ![r].pc = "done",
                                  ![r].events = Append(@, "complete")]
          /\ UNCHANGED handles
       \/ /\ run.pc = "step"
          /\ run.i <= Len(run.steps)
          /\ LET step == run.steps[run.i]
                 data == BytesToSend(run.is_hex, step.cmd)
             IN
             IF ~data.ok
             THEN /\ runs' = [runs EXCEPT ![r].pc = "done",
                                          ![r].events = @ \o abort]
                  /\ UNCHANGED handles
             ELSE \E out \in WriteOutcomes(s) :
                    IF out = "raise"
                    THEN /\ runs' = [runs EXCEPT ![r].i = @ + 1,
                                                 ![r].events = Append(@, "error")]
                         /\ UNCHANGED handles
                    ELSE /\ handles' = [handles EXCEPT
                                ![serial_port[s]].wire = @ \o data.bytes]
                         /\ runs' = [runs EXCEPT
                                ![r].sent = Append(@, [h |-> serial_port[s],
                                                       k |-> run.i,
                                                       bytes |-> data.bytes]),
                                ![r].events = Append(@, "sent") \o
                                    (IF step.delay < 0 THEN abort ELSE <<>>),
                                ![r].pc = IF step.delay < 0 THEN "done"
                                          ELSE "sleep"]
       \/ /\ run.pc = "sleep"
          /\ runs' = [runs EXCEPT ![r].pc = "step", ![r].i = @ + 1]
          /\ UNCHANGED handles
    /\ UNCHANGED <<running, serial_port, listeners, log, dialog, pvars,
                   destroyed>>

\* Faulty variant: time.sleep is called only for a delay that is not 0.
SendSequenceNoZeroSleep(r) ==
    LET run == runs[r]
        s == run.sess
        abort == <<"error", "complete">>
    IN
    /\ ~destroyed
    /\ \/ /\ run.pc = "step"
          /\ run.i > Len(run.steps)
          /\ runs' = [runs EXCEPT ![r].pc = "done",
                                  ![r].events = Append(@, "complete")]
          /\ UNCHANGED handles
       \/ /\ run.pc = "step"
          /\ run.i <= Len(run.steps)
          /\ LET step == run.steps[run.i]
                 data == BytesToSend(run.is_hex, step.cmd)
             IN
             IF ~data.ok
             THEN /\ runs' = [runs EXCEPT ![r].pc = "done",
                                          ![r].events = @ \o abort]
                  /\ UNCHANGED handles
             ELSE \E out \in WriteOutcomes(s) :
                    IF out = "raise"
                    THEN /\ runs' = [runs EXCEPT ![r].pc = "done",
                                                 ![r].events = @ \o abort]
                         /\ UNCHANGED handles
                    ELSE /\ handles' = [handles EXCEPT
                                ![serial_port[s]].wire = @ \o data.bytes]
                         /\ runs' = [runs EXCEPT
                                ![r].sent = Append(@, [h |-> serial_port[s],
                                                       k |-> run.i,
                                                       bytes |-> data.bytes]),
                                ![r].events = Append(@, "sent") \o
                                    (IF step.delay < 0 THEN abort ELSE <<>>),
                                ![r].i = IF step.delay = 0 THEN @ + 1 ELSE @,
                                ![r].pc = IF step.delay < 0 THEN "done"
                                          ELSE IF step.delay = 0 THEN "step"
                                          ELSE "sleep"]
       \/ /\ run.pc = "sleep"
          /\ runs' = [runs EXCEPT ![r].pc = "step", ![r].i = @ + 1]
          /\ UNCHANGED handles
    /\ UNCHANGED <<running, serial_port, listeners, log, dialog, pvars,
                   destroyed>>

\* send_sequence(steps, is_hex), one loop iteration in two steps: the write
\* (pc "step") and the sleep (pc "sleep").
SendSequence(r) ==
    LET run == runs[r]
        s == run.sess
        abort == <<"error", "complete">>
    IN
    /\ ~destroyed
    /\ \/ /\ run.pc = "step"
          /\ run.i > Len(run.steps)
          /\ runs' = [runs EXCEPT ![r].pc = "done",
                                  ![r].events = Append(@, "complete")]
          /\ UNCHANGED handles
       \/ /\ run.pc = "step"
          /\ run.i <= Len(run.steps)
          /\ LET step == run.steps[run.i]
                 data == BytesToSend(run.is_hex, step.cmd)
             IN
             IF ~data.ok
             THEN /\ runs' = [runs EXCEPT ![r].pc = "done",
                                          ![r].events = @ \o abort]
                  /\ UNCHANGED handles
             ELSE \E out \in WriteOutcomes(s) :
                    IF out = "raise"
                    THEN /\ runs' = [runs EXCEPT ![r].pc = "done",
                                                 ![r].events = @ \o abort]
                         /\ UNCHANGED handles
                    ELSE /\ handles' = [handles EXCEPT
                                ![serial_port[s]].wire = @ \o data.bytes]
                         /\ runs' = [runs EXCEPT
                                ![r].sent = Append(@, [h |-> serial_port[s],
                                                       k |-> run.i,
                                                       bytes |-> data.bytes]),
                                ![r].events = Append(@, "sent") \o
                                    (IF step.delay < 0 THEN abort ELSE <<>>),
                                ![r].pc = IF step.delay < 0 THEN "done"
                                          ELSE "sleep"]
       \/ /\ run.pc = "sleep"
          /\ runs' = [runs EXCEPT ![r].pc = "step", ![r].i = @ + 1]
          /\ UNCHANGED handles
    /\ UNCHANGED <<running, serial_port, listeners, log, dialog, pvars,
                   destroyed>>

(* ------------------------------ shutdown ------------------------------- *)
\* Faulty variant: close() is called on every frame's serial_port without
\* looking at is_open.
CloseUnguarded ==
    /\ ~destroyed
    /\ running' = [s \in Sessions |-> FALSE]
    /\ handles' = CloseHandles({serial_port[s] : s \in Sessions} \ {0})
    /\ destroyed' = TRUE
    /\ UNCHANGED <<serial_port, listeners, runs, log, dialog, pvars>>

Close ==
    /\ ~destroyed
    /\ running' = [s \in Sessions |-> FALSE]
    /\ handles' = CloseHandles({serial_port[s] : s \in {t \in Sessions : PortIsOpen(t)}})
    /\ destroyed' = TRUE
    /\ UNCHANGED <<serial_port, listeners, runs, log, dialog, pvars>>

(* ---------------------------- profile store ---------------------------- *)
\* Bounds of the editing model: the profile dicts created, the editor
\* windows opened, the changes made to the list in one editor window.
MaxObjects == 2
MaxEditors == 1
MaxRenders == 1

\* What the user answers to askstring: a name, or nothing (also Cancel).
NameInputs == {"text", ""}
\* What the user types into an entry of the editor: " AT " as a command,
\* "x" as a delay.
TypedCmd == <<32, 65, 84, 32>>
TypedDelay == <<120>>

\* str.strip()
Strip(str) == RStrip(LStrip(str))

RECURSIVE Digits(_)
Digits(n) ==
    IF n < 10 THEN <<48 + n>> ELSE Append(Digits(n \div 10), 48 + (n % 10))

\* str(delay) of a float with a whole value: "1.0", "-1.0".
FormatDelay(d) ==
    (IF d < 0 THEN <<45>> ELSE <<>>) \o Digits(IF d < 0 THEN 0 - d ELSE d)
        \o <<46, 48>>

\* float(text): blanks around, a sign, digits with at most one point and at
\* least one digit (exponents, "inf", "nan" and underscores are not among
\* the inputs). Delays are counted in whole seconds: a fraction that is not
\* 0 rounds away from 0, which keeps the sign.
ParseFloat(str) ==
    LET t == Strip(str)
        signed == t # <<>> /\ t[1] \in {43, 45}
        body == IF signed THEN Tail(t) ELSE t
        dots == {k \in DOMAIN body : body[k] = 46}
        dot == IF dots = {} THEN Len(body) + 1
               ELSE CHOOSE k \in dots : \A j \in dots : k <= j
        whole == SubSeq(body, 1, dot - 1)
        frac == SubSeq(body, dot + 1, Len(body))
        mag == DigitsVal(whole, 0) +
               (IF \E k \in DOMAIN frac : frac[k] # 48 THEN 1 ELSE 0)
    IN  IF /\ Cardinality(dots) <= 1
           /\ whole \o frac # <<>>
           /\ \A k \in DOMAIN whole : IsDigit(whole[k])
           /\ \A k \in DOMAIN frac : IsDigit(frac[k])
        THEN [ok |-> TRUE,
              val |-> IF signed /\ t[1] = 45 THEN 0 - mag ELSE mag]
        ELSE [ok |-> FALSE, val |-> 0]

\* render_steps(): one (cmd_var, delay_var) pair per step of the list.
RenderSteps(steps) ==
    [k \in DOMAIN steps |->
        [cmd |-> steps[k].cmd, delay |-> FormatDelay(steps[k].delay)]]

\* The loop of save_profile: a row whose delay float() rejects is skipped.
RECURSIVE UpdatedSteps(_)
UpdatedSteps(step_widgets) ==
    IF step_widgets = <<>> THEN <<>>
    ELSE LET row == Head(step_widgets)
             delay == ParseFloat(row.delay)
         IN  (IF delay.ok
              THEN <<[cmd |-> Strip(row.cmd), delay |-> delay.val]>>
              ELSE <<>>) \o UpdatedSteps(Tail(step_widgets))

\* The dict with d[name] = value.
WithEntry(d, name, value) ==
    [n \in DOMAIN d \cup {name} |-> IF n = name THEN value ELSE d[n]]

\* The dict after del d[name].
WithoutEntry(d, name) == [n \in DOMAIN d \ {name} |-> d[n]]

\* save_profiles(self.profiles): json.dump of the dict as it is now.
SaveProfiles(now) == disk' = now

NewProfile(name) ==
    /\ ~destroyed
    /\ IF name # "" /\ name \notin DOMAIN profiles
       THEN /\ created < MaxObjects
            /\ profiles' = WithEntry(profiles, name,
                               [steps |-> <<>>, is_hex |-> FALSE])
            /\ ident' = WithEntry(ident, name, created + 1)
            /\ created' = created + 1
            /\ SaveProfiles(profiles')
            /\ dialog' = "none"
       ELSE /\ dialog' = "Info"
            /\ UNCHANGED <<profiles, ident, created, disk>>
    /\ UNCHANGED <<running, serial_port, handles, listeners, runs, log,
                   destroyed, editors>>

DeleteProfile(name, yes) ==
    /\ ~destroyed
    /\ IF name # "" /\ name \in DOMAIN profiles
       THEN /\ dialog' = "Confirm Delete"
            /\ IF yes
               THEN /\ profiles' = WithoutEntry(profiles, name)
                    /\ ident' = WithoutEntry(ident, name)
                    /\ SaveProfiles(profiles')
               ELSE UNCHANGED <<profiles, ident, disk>>
       ELSE /\ dialog' = "Delete Error"
            /\ UNCHANGED <<profiles, ident, disk>>
    /\ UNCHANGED <<running, serial_port, handles, listeners, runs, log,
                   destroyed, created, editors>>

\* The editor keeps the profile dict it was opened on (obj, with the content
\* of its list in steps) and the rows render_steps() made last.
EditProfile(name) ==
    /\ ~destroyed
    /\ IF name = "" \/ name \notin DOMAIN profiles
       THEN /\ dialog' = "Profile Error"
            /\ UNCHANGED editors
       ELSE /\ Len(editors) < MaxEditors
            /\ editors' = Append(editors,
                   [name |-> name, obj |-> ident[name],
                    steps |-> profiles[name].steps,
                    step_widgets |-> RenderSteps(profiles[name].steps),
                    is_hex |-> profiles[name].is_hex, open |-> TRUE,
                    renders |-> 0])
            /\ dialog' = "none"
    /\ UNCHANGED <<running, serial_port, handles, listeners, runs, log,
                   destroyed, profiles, disk, ident, created>>

\* An assignment to, or a del or append on, profile["steps"] in editor e,
\* followed by render_steps() (renders counts these calls, the one that
\* fills the new window apart): the list object changes for everything that
\* holds it (the entry of profiles, if it is still that dict; the runs
\* started on it; the editors opened on it), and nothing is saved.
EditInPlace(e, steps) ==
    LET o == editors[e].obj IN
    /\ editors[e].renders < MaxRenders
    /\ profiles' = [n \in DOMAIN profiles |->
                       IF ident[n] = o
                       THEN [profiles[n] EXCEPT !.steps = steps]
                       ELSE profiles[n]]
    /\ runs' = [r \in DOMAIN runs |->
                   IF runs[r].obj = o
                   THEN [runs[r] EXCEPT !.steps = steps]
                   ELSE runs[r]]
    /\ editors' = [k \in DOMAIN editors |->
                      IF k = e
                      THEN [editors[k] EXCEPT
                               !.steps = steps,
                               !.step_widgets = RenderSteps(steps),
                               !.renders = @ + 1]
                      ELSE IF editors[k].obj = o
                      THEN [editors[k] EXCEPT !.steps = steps]
                      ELSE editors[k]]
    /\ UNCHANGED <<running, serial_port, handles, listeners, log, dialog,
                   destroyed, disk, ident, created>>

\* The list with the elements at i and j exchanged.
Swapped(steps, i, j) ==
    [k \in DOMAIN steps |->
        IF k = i THEN steps[j] ELSE IF k = j THEN steps[i] ELSE steps[k]]

\* The list without its element at i.
Removed(steps, i) ==
    SubSeq(steps, 1, i - 1) \o SubSeq(steps, i + 1, Len(steps))

\* The arrow buttons of row index (rows are counted from 1 here). A button
\* of a row the list no longer has raises IndexError or does nothing.
MoveStep(e, index, direction) ==
    LET steps == editors[e].steps
        new_index == index + direction
    IN
    /\ ~destroyed
    /\ editors[e].open
    /\ index \in DOMAIN editors[e].step_widgets
    /\ IF new_index \in DOMAIN steps /\ index \in DOMAIN steps
       THEN EditInPlace(e, Swapped(steps, index, new_index))
       ELSE UNCHANGED vars

DeleteStep(e, index) ==
    LET steps == editors[e].steps IN
    /\ ~destroyed
    /\ editors[e].open
    /\ index \in DOMAIN editors[e].step_widgets
    /\ IF index \in DOMAIN steps
       THEN EditInPlace(e, Removed(steps, index))
       ELSE UNCHANGED vars

AddStep(e) ==
    /\ ~destroyed
    /\ editors[e].open
    /\ EditInPlace(e, Append(editors[e].steps, [cmd |-> <<>>, delay |-> 1]))

\* What the rows hold when Save is clicked: what render_steps() put there,
\* with the command or the delay of the first row typed over, or nothing
\* typed.
TypedFields == {"none", "cmd", "delay"}
TypedOver(step_widgets, field) ==
    [j \in DOMAIN step_widgets |->
        IF j # 1 \/ field = "none" THEN step_widgets[j]
        ELSE IF field = "cmd"
        THEN [step_widgets[j] EXCEPT !.cmd = TypedCmd]
        ELSE [step_widgets[j] EXCEPT !.delay = TypedDelay]]

\* save_profile(editor, name, is_hex_var, step_widgets): is_hex is what the
\* checkbox holds.
SaveProfile(e, is_hex, field) ==
    LET name == editors[e].name
        updated_steps ==
            UpdatedSteps(TypedOver(editors[e].step_widgets, field))
    IN
    /\ ~destroyed
    /\ editors[e].open
    /\ created < MaxObjects
    /\ profiles' = WithEntry(profiles, name,
                       [steps |-> updated_steps, is_hex |-> is_hex])
    /\ ident' = WithEntry(ident, name, created + 1)
    /\ created' = created + 1
    /\ SaveProfiles(profiles')
    /\ editors' = [editors EXCEPT ![e].open = FALSE]
    /\ dialog' = "none"
    /\ UNCHANGED <<running, serial_port, handles, listeners, runs, log,
                   destroyed>>

(* --------------------------- specification ----------------------------- *)
\* The user clicks Connect/Disconnect or Execute in some frame, or closes
\* the window; a started thread takes its next step.
Toggle == \E s \in Sessions : ToggleConnection(s)
Execute == \E s \in Sessions, name \in ProfileInputs : ExecuteProfile(s, name)
ListenerStep == \E l \in DOMAIN listeners : ListenSerial(l)
SequenceStep == \E r \in DOMAIN runs : SendSequence(r)

Next ==
    \/ Toggle
    \/ Execute
    \/ ListenerStep
    \/ SequenceStep
    \/ Close

Spec == Init /\ [][Next]_vars

\* Every started thread keeps being scheduled (the interpreter switches
\* between runnable threads), until the process exits.
Fairness ==
    /\ \A l \in 1..MaxThreads :
           WF_vars(l \in DOMAIN listeners /\ ListenSerial(l))
    /\ \A r \in 1..MaxThreads :
           WF_vars(r \in DOMAIN runs /\ SendSequence(r))

SpecFair == Spec /\ Fairness

\* The buttons of the header and of an editor window.
New == \E name \in NameInputs : NewProfile(name)
Delete == \E name \in NameInputs, yes \in BOOLEAN : DeleteProfile(name, yes)
Edit == \E name \in NameInputs : EditProfile(name)
Move ==
    \E e \in DOMAIN editors :
        \E index \in DOMAIN editors[e].step_widgets, direction \in {-1, 1} :
            MoveStep(e, index, direction)
DeleteRow ==
    \E e \in DOMAIN editors :
        \E index \in DOMAIN editors[e].step_widgets : DeleteStep(e, index)
Add == \E e \in DOMAIN editors : AddStep(e)
Save ==
    \E e \in DOMAIN editors, is_hex \in BOOLEAN, field \in TypedFields :
        SaveProfile(e, is_hex, field)

\* The buttons of the first frame.
ToggleFirst == ToggleConnection(1)
ExecuteFirst == \E name \in ProfileInputs : ExecuteProfile(1, name)

\* The program with the profile editor in use: the user creates, deletes,
\* edits and saves profiles while the first frame connects and runs them.
\* The other frames stay unused, and the steps of the listener threads,
\* which read and write nothing a profile, an editor or a run holds, are
\* left out.
NextEdit ==
    \/ ToggleFirst
    \/ ExecuteFirst
    \/ SequenceStep
    \/ New
    \/ Delete
    \/ Edit
    \/ Move
    \/ DeleteRow
    \/ Add
    \/ Save

SpecEdit == Init /\ [][NextEdit]_vars

(* ------------------------------ properties ----------------------------- *)
\* send_sequence threads of session s that have not returned.
ActiveRuns(s) ==
    {r \in DOMAIN runs : runs[r].sess = s /\ runs[r].pc # "done"}

\* listen_serial threads of session s that have not returned.
AliveListeners(s) ==
    {l \in DOMAIN listeners :
        listeners[l].sess = s /\ listeners[l].pc # "done"}

\* C1: every session has at most one send_sequence thread that has not
\* finished (a second Execute during a run starts no second run).
C1_AtMostOneActiveRun ==
    \A s \in Sessions : Cardinality(ActiveRuns(s)) <= 1

\* C2: once a run has written step N to the handle it was started on, it
\* does not write step N+1 to another handle of the session: a Disconnect
\* between the two steps (which closes the first handle) ends the writing,
\* also when the session is connected again.
C2_NoWriteAfterDisconnect ==
    \A r \in DOMAIN runs :
        \A j \in 2..Len(runs[r].sent) :
            runs[r].sent[j - 1].h = runs[r].h0 => runs[r].sent[j].h = runs[r].h0

\* C3: every session has at most one listen_serial thread alive.
C3_AtMostOneListener ==
    \A s \in Sessions : Cardinality(AliveListeners(s)) <= 1

\* C4: execute_profile on a session that is not running (never connected,
\* or disconnected) shows an error, starts no thread and writes nothing.
C4_ExecuteClosedFails ==
    [][\A s \in Sessions, name \in ProfileInputs :
          (ExecuteProfile(s, name) /\ ~running[s]) =>
              /\ dialog' \in {"Profile Error", "Port Error"}
              /\ runs' = runs
              /\ handles' = handles]_vars

\* An Execute was refused with "Port Error" while every session was closed,
\* one of them after a disconnect.
C4_Witness ==
    /\ dialog = "Port Error"
    /\ \A s \in Sessions : ~running[s]
    /\ \E s \in Sessions : serial_port[s] # 0

\* C5: a disconnect leaves the session not running with its handle closed
\* and no handle of the session open, and a connect of that session to the
\* port of its last handle, with a well-formed positive baud and the device
\* held by no other session, makes it running with an open handle again.
C5_DisconnectReleases ==
    [][\A s \in Sessions :
          /\ (running[s] /\ DisconnectPort(s)) =>
                /\ ~running'[s]
                /\ \A h \in DOMAIN handles' :
                       handles'[h].sess = s => ~handles'[h].is_open
                /\ handles'[serial_port[s]].closes = 1
          /\ \A port \in PortInputs :
                (/\ ~running[s]
                 /\ serial_port[s] # 0
                 /\ handles[serial_port[s]].port = port
                 /\ \A h \in DOMAIN handles :
                        handles[h].port = port => ~handles[h].is_open
                 /\ ConnectPort(s, port, DefaultBaud)) =>
                    /\ running'[s]
                    /\ serial_port'[s] # serial_port[s]
                    /\ handles'[serial_port'[s]].is_open
                    /\ handles'[serial_port'[s]].port = port]_vars

\* A session was connected, disconnected and connected again to the same
\* port.
C5_Witness ==
    \E s \in Sessions, h1, h2 \in DOMAIN handles :
        /\ h1 < h2
        /\ handles[h1].sess = s /\ handles[h2].sess = s
        /\ handles[h1].port = handles[h2].port
        /\ ~handles[h1].is_open /\ handles[h2].is_open
        /\ running[s] /\ serial_port[s] = h2

\* The baud entries "96x" and "" and the port entry "".
MalformedBauds == {<<57, 54, 120>>, <<>>}
UnknownPorts == {""}

\* C6: a connect with a malformed baud or with a port that cannot be opened
\* fails, and a connect that fails leaves the session not running, without
\* an open handle, and starts no listener thread.
C6_FailedConnectStaysClosed ==
    [][\A s \in Sessions, port \in PortInputs, baudstr \in BaudInputs :
          (~running[s] /\ ConnectPort(s, port, baudstr)) =>
              /\ (baudstr \in MalformedBauds \/ port \in UnknownPorts)
                    => dialog' = "Connection Error"
              /\ dialog' = "Connection Error" =>
                    /\ ~running'[s]
                    /\ serial_port' = serial_port
                    /\ handles' = handles
                    /\ listeners' = listeners
                    /\ \A h \in DOMAIN handles' :
                           handles'[h].sess = s => ~handles'[h].is_open]_vars

\* A connect failed while no session was running.
C6_Witness ==
    /\ dialog = "Connection Error"
    /\ \A s \in Sessions : ~running[s]
    /\ listeners = <<>>

\* The bytes a TEXT profile puts on the wire: payload, CR, LF per step.
RECURSIVE TextWire(_)
TextWire(steps) ==
    IF steps = <<>> THEN <<>>
    ELSE Encode(Head(steps).cmd) \o <<13, 10>> \o TextWire(Tail(steps))

\* No other run wrote to the handle run r was started on.
Alone(r) ==
    \A q \in DOMAIN runs \ {r} :
        \A j \in DOMAIN runs[q].sent : runs[q].sent[j].h # runs[r].h0

\* Run r of a TEXT profile went through all its steps without an error, alone
\* on a handle that is still open.
TextRunCompleted(r) ==
    /\ ~runs[r].is_hex
    /\ runs[r].pc = "done"
    /\ \A j \in DOMAIN runs[r].events : runs[r].events[j] # "error"
    /\ handles[runs[r].h0].is_open
    /\ Alone(r)

\* C7: a TEXT run that completed alone on an open session has written each
\* step once, in step order, and the wire holds exactly payload CR LF of
\* every step in that order.
C7_TextWireExact ==
    \A r \in DOMAIN runs :
        TextRunCompleted(r) =>
            /\ Len(runs[r].sent) = Len(runs[r].steps)
            /\ \A j \in DOMAIN runs[r].sent :
                   runs[r].sent[j].k = j /\ runs[r].sent[j].h = runs[r].h0
            /\ handles[runs[r].h0].wire = TextWire(runs[r].steps)
            /\ (runs[r].steps = ProfileOf("text").steps =>
                   handles[runs[r].h0].wire =
                       <<80, 73, 78, 71, 13, 10,
                         83, 84, 65, 84, 85, 83, 13, 10>>)

\* The PING, STATUS profile completed alone on an open session.
C7_Witness ==
    \E r \in DOMAIN runs :
        /\ TextRunCompleted(r)
        /\ runs[r].steps = ProfileOf("text").steps
        /\ Len(handles[runs[r].h0].wire) = 14

\* Hex payloads as the claim reads them: an even number of characters, all
\* of them hex digits.
EvenHexString(cmd) ==
    /\ Len(cmd) % 2 = 0
    /\ \A k \in DOMAIN cmd : HexVal(cmd[k]) >= 0

\* C8 as stated: a HEX run writes a step only if its payload is an
\* even-length string of hex digits.
C8_OnlyEvenHexWritten ==
    \A r \in DOMAIN runs :
        runs[r].is_hex =>
            \A j \in DOMAIN runs[r].sent :
                EvenHexString(runs[r].steps[runs[r].sent[j].k].cmd)

\* Hex payloads fromhex takes: hex digits in adjacent pairs, with ASCII
\* whitespace allowed before, between and after the pairs.
NotSpace(c) == ~IsSpace(c)
DigitPlaces(cmd) == {k \in DOMAIN cmd : NotSpace(cmd[k])}
PlaceRank(cmd, k) == Cardinality({j \in DigitPlaces(cmd) : j <= k})
PairedHexString(cmd) ==
    /\ \A k \in DigitPlaces(cmd) : HexVal(cmd[k]) >= 0
    /\ Cardinality(DigitPlaces(cmd)) % 2 = 0
    /\ \A k \in DigitPlaces(cmd) :
           PlaceRank(cmd, k) % 2 = 1 => (k + 1) \in DigitPlaces(cmd)
PairedHexBytes(cmd) ==
    LET d == SelectSeq(cmd, NotSpace)
    IN  [j \in 1..(Len(d) \div 2) |->
            16 * HexVal(d[2 * j - 1]) + HexVal(d[2 * j])]

\* C8 (amended): a HEX run writes a step only if its payload is hex digits
\* in adjacent pairs (whitespace around pairs ignored), as the bytes of the
\* pairs, each step once and in order; a run that reaches a step whose
\* payload is not of that form stops there, having written nothing for that
\* step or later ones and logged one error, then the completion line.
C8_BadHexAborts ==
    \A r \in DOMAIN runs :
        runs[r].is_hex =>
            /\ \A j \in DOMAIN runs[r].sent :
                   LET cmd == runs[r].steps[runs[r].sent[j].k].cmd
                   IN  /\ runs[r].sent[j].k = j
                       /\ PairedHexString(cmd)
                       /\ runs[r].sent[j].bytes = PairedHexBytes(cmd)
            /\ (/\ runs[r].i <= Len(runs[r].steps)
                /\ runs[r].pc = "step"
                /\ ~PairedHexString(runs[r].steps[runs[r].i].cmd)) =>
                   Len(runs[r].sent) = runs[r].i - 1
            /\ (/\ runs[r].i <= Len(runs[r].steps)
                /\ runs[r].pc = "done"
                /\ ~PairedHexString(runs[r].steps[runs[r].i].cmd)) =>
                   /\ Len(runs[r].sent) = runs[r].i - 1
                   /\ runs[r].events =
                          [j \in 1..(runs[r].i - 1) |-> "sent"] \o
                              <<"error", "complete">>

\* The run of A1B2, A1B, FF stopped at the odd-length A1B having written
\* 0xA1 0xB2 only.
C8_Witness ==
    \E r \in DOMAIN runs :
        /\ runs[r].is_hex
        /\ runs[r].pc = "done"
        /\ runs[r].i = 2
        /\ runs[r].steps[2].cmd = <<65, 49, 66>>
        /\ Len(runs[r].sent) = 1
        /\ runs[r].sent[1].bytes = <<161, 178>>
        /\ runs[r].events = <<"sent", "error", "complete">>

\* C9: when the application has exited (root destroyed), every listener and
\* every run has terminated.
C9_ExitWaitsForThreads ==
    destroyed =>
        /\ \A l \in DOMAIN listeners : listeners[l].pc = "done"
        /\ \A r \in DOMAIN runs : runs[r].pc = "done"

\* Listener l was started by the connect that created handle l; that handle
\* has been closed by a disconnect (the process still runs).
Disconnected(l) ==
    IF l \in DOMAIN listeners THEN ~handles[l].is_open /\ ~destroyed ELSE FALSE

\* Listener l has returned, or the process has exited.
Terminated(l) ==
    IF l \in DOMAIN listeners THEN listeners[l].pc = "done" \/ destroyed
    ELSE FALSE

\* C10: a listener whose connection was disconnected (the handle opened by
\* the connect that started it is closed) eventually terminates, whatever
\* the user does afterwards.
C10_ListenerTerminates ==
    \A l \in 1..MaxThreads : Disconnected(l) ~> Terminated(l)

\* Run r has logged its "Sequence complete" line.
RunCompleted(r) ==
    IF r \in DOMAIN runs
    THEN \E j \in DOMAIN runs[r].events : runs[r].events[j] = "complete"
    ELSE FALSE

RunStarted(r) == r \in DOMAIN runs

\* C11: every started run eventually logs "Sequence complete".
C11_EveryRunCompletes ==
    \A r \in 1..MaxThreads : RunStarted(r) ~> RunCompleted(r)

\* C12: a read that raises while the session is running with its handle open
\* logs one "Listen Error" line and ends the listener, leaving running, the
\* handles and the set of listeners as they were; a listener that has ended
\* does nothing more and has logged at most one error; and running becomes
\* False only by a disconnect or by closing the window.
C12_ReadErrorEndsListener ==
    [][/\ \A l \in DOMAIN listeners :
             /\ Len(listeners[l].events) <= 1
             /\ listeners[l].pc = "done" => listeners'[l] = listeners[l]
             /\ (/\ listeners[l].pc = "read"
                 /\ running[listeners[l].sess]
                 /\ PortIsOpen(listeners[l].sess)
                 /\ ListenSerial(l)
                 /\ listeners'[l].events # listeners[l].events) =>
                    /\ listeners'[l].events = <<"listen_error">>
                    /\ listeners'[l].pc = "done"
                    /\ Len(listeners') = Len(listeners)
                    /\ running' = running
                    /\ serial_port' = serial_port
                    /\ handles' = handles
       /\ \A s \in Sessions :
             (running[s] /\ ~running'[s]) => (DisconnectPort(s) \/ Close)]_vars

\* A listener ended on a read error while its own handle is still open and
\* the session still running.
C12_Witness ==
    \E l \in DOMAIN listeners :
        /\ listeners[l].pc = "done"
        /\ listeners[l].events = <<"listen_error">>
        /\ running[listeners[l].sess]
        /\ serial_port[listeners[l].sess] = l
        /\ handles[l].is_open

\* What session j owns: its flag, its handle reference, the handles it
\* opened, its listener threads and its runs.
SessionView(j) ==
    [running |-> running[j],
     serial_port |-> serial_port[j],
     handles |-> [h \in {k \in DOMAIN handles : handles[k].sess = j} |->
                     handles[h]],
     listeners |-> [l \in {k \in DOMAIN listeners : listeners[k].sess = j} |->
                     listeners[l]],
     runs |-> [r \in {k \in DOMAIN runs : runs[k].sess = j} |-> runs[r]]]

\* A handler or a thread step of session i.
SessionStep(i) ==
    \/ ToggleConnection(i)
    \/ \E name \in ProfileInputs : ExecuteProfile(i, name)
    \/ \E l \in DOMAIN listeners : listeners[l].sess = i /\ ListenSerial(l)
    \/ \E r \in DOMAIN runs : runs[r].sess = i /\ SendSequence(r)

\* C13: a step of session i changes nothing that another session owns; a
\* frame's serial_port is a handle the frame opened, and a run writes only
\* to handles of its own session.
C13_SessionsIndependent ==
    [][/\ \A s \in Sessions :
             serial_port[s] # 0 => handles[serial_port[s]].sess = s
       /\ \A r \in DOMAIN runs : \A j \in DOMAIN runs[r].sent :
             handles[runs[r].sent[j].h].sess = runs[r].sess
       /\ \A i \in Sessions :
             SessionStep(i) =>
                 \A j \in Sessions \ {i} : SessionView(j)' = SessionView(j)]_vars

\* Two sessions are open at once and a run of one of them has written.
C13_Witness ==
    \E i, j \in Sessions :
        /\ i # j
        /\ running[i] /\ PortIsOpen(i)
        /\ running[j] /\ PortIsOpen(j)
        /\ \E r \in DOMAIN runs : runs[r].sess = i /\ runs[r].sent # <<>>

\* Handles session s has opened.
HandlesOf(s) == {h \in DOMAIN handles : handles[h].sess = s}

\* C14: a handle is open until it has been closed, is closed at most once,
\* is open only while its session is running and refers to it, and every
\* handle of a session that is not running has been closed exactly once; so
\* a session has at most one open handle.
C14_HandleClosedOnce ==
    /\ \A h \in DOMAIN handles :
          /\ handles[h].closes <= 1
          /\ handles[h].is_open <=> handles[h].closes = 0
          /\ handles[h].is_open =>
                running[handles[h].sess] /\ serial_port[handles[h].sess] = h
    /\ \A s \in Sessions :
          /\ Cardinality({h \in HandlesOf(s) : handles[h].is_open}) <= 1
          /\ ~running[s] => \A h \in HandlesOf(s) : handles[h].closes = 1

\* A session was connected twice and disconnected twice.
C14_Witness ==
    \E s \in Sessions :
        /\ ~running[s]
        /\ Cardinality(HandlesOf(s)) = 2
        /\ \A h \in HandlesOf(s) : handles[h].closes = 1

\* Run r takes a step that calls serial_port.write: it is at a step of its
\* list whose payload could be built.
WriteAttempted(r) ==
    /\ runs[r].pc = "step"
    /\ runs[r].i <= Len(runs[r].steps)
    /\ BytesToSend(runs[r].is_hex, runs[r].steps[runs[r].i].cmd).ok
    /\ SendSequence(r)

\* C16: a run of a session whose running flag is False does not attempt a
\* write.
C16_NoStepAfterStopFlag ==
    [][\A r \in DOMAIN runs :
          ~running[runs[r].sess] => ~WriteAttempted(r)]_vars

\* Number of "error" lines among the events.
Errors(events) ==
    Cardinality({j \in DOMAIN events : events[j] = "error"})

\* C17: a write that raises makes its run log one error line followed by
\* "Sequence complete" and return without moving to another step; the step
\* changes nothing but that run (running, serial_port, the handles, the
\* listeners and the other runs stay as they are); a run that has returned
\* does nothing more, and no run logs two errors.
C17_WriteErrorEndsRun ==
    [][\A r \in DOMAIN runs :
          /\ Errors(runs[r].events) <= 1
          /\ runs[r].pc = "done" => runs'[r] = runs[r]
          /\ (WriteAttempted(r) /\ runs'[r].sent = runs[r].sent) =>
                /\ runs'[r].events = runs[r].events \o <<"error", "complete">>
                /\ runs'[r].pc = "done"
                /\ runs'[r].i = runs[r].i
                /\ \A q \in DOMAIN runs \ {r} : runs'[q] = runs[q]
                /\ running' = running
                /\ serial_port' = serial_port
                /\ handles' = handles
                /\ listeners' = listeners]_vars

\* A run of the "text" profile wrote PING, failed on the write of STATUS and
\* returned, while its session is still running with its handle open and a
\* listener alive.
C17_Witness ==
    \E r \in DOMAIN runs :
        /\ runs[r].steps = ProfileOf("text").steps
        /\ runs[r].events = <<"sent", "error", "complete">>
        /\ runs[r].pc = "done"
        /\ runs[r].i = 2
        /\ running[runs[r].sess]
        /\ PortIsOpen(runs[r].sess)
        /\ AliveListeners(runs[r].sess) # {}

\* C18: a run writes step i only at pc "step", having written steps 1..i-1
\* in order; a write that succeeds is followed by the sleep of the same
\* step (pc "sleep", also for a delay of 0 and for the last step) unless the
\* delay is negative, when sleep raises and the run ends; the run moves to
\* the next step only by finishing a sleep; a step that fails ends the run
\* without a sleep.
C18_DelayBetweenWrites ==
    [][\A r \in DOMAIN runs :
          /\ \A j \in DOMAIN runs[r].sent : runs[r].sent[j].k = j
          /\ runs[r].pc = "sleep" =>
                /\ Len(runs[r].sent) = runs[r].i
                /\ runs[r].steps[runs[r].i].delay >= 0
          /\ runs[r].pc = "step" => Len(runs[r].sent) = runs[r].i - 1
          /\ runs'[r].sent # runs[r].sent =>
                /\ runs[r].pc = "step"
                /\ runs'[r].sent = Append(runs[r].sent, runs'[r].sent[runs[r].i])
                /\ runs'[r].i = runs[r].i
                /\ IF runs[r].steps[runs[r].i].delay >= 0
                   THEN runs'[r].pc = "sleep"
                   ELSE runs'[r].pc = "done"
          /\ runs'[r].i # runs[r].i =>
                /\ runs[r].pc = "sleep"
                /\ runs'[r].pc = "step"
                /\ runs'[r].i = runs[r].i + 1
          /\ (runs[r].pc = "step" /\ runs'[r].pc = "done") =>
                runs'[r].i = runs[r].i]_vars

\* A run has written both steps of the "text" profile, the first with a
\* delay of 0, and is in the sleep of the last step.
C18_Witness ==
    \E r \in DOMAIN runs :
        /\ runs[r].steps = ProfileOf("text").steps
        /\ runs[r].steps[1].delay = 0
        /\ Len(runs[r].sent) = 2
        /\ runs[r].i = Len(runs[r].steps)
        /\ runs[r].pc = "sleep"

\* Session s holds an open handle.
HoldsOpenHandle(s) == \E h \in HandlesOf(s) : handles[h].is_open

\* C20: in every state a session is running exactly when it holds an open
\* handle, which is then its serial_port; and a toggle of a session that
\* holds an open handle is a disconnect, a toggle of one that holds none is
\* a connect.
C20_RunningIffOpen ==
    /\ [](\A s \in Sessions :
             /\ running[s] <=> HoldsOpenHandle(s)
             /\ running[s] => PortIsOpen(s))
    /\ [][\A s \in Sessions :
             ToggleConnection(s) =>
                 IF HoldsOpenHandle(s)
                 THEN /\ DisconnectPort(s)
                      /\ ~\E port \in PortInputs, baudstr \in BaudInputs :
                             ConnectPort(s, port, baudstr)
                 ELSE /\ ~DisconnectPort(s)
                      /\ \E port \in PortInputs, baudstr \in BaudInputs :
                             ConnectPort(s, port, baudstr)]_vars

\* A session is running again after a disconnect and a reconnect, and a
\* write of one of its runs has failed.
C20_Witness ==
    \E s \in Sessions :
        /\ running[s]
        /\ Cardinality(HandlesOf(s)) = 2
        /\ \E r \in DOMAIN runs :
              runs[r].sess = s /\ Errors(runs[r].events) = 1

\* C15: profiles.json holds the profiles dict as it is in memory, after
\* every handler that changes the dict.
C15_DiskEqualsMemory == disk = profiles

\* C19: what a run has written is, write by write, the payload of the steps
\* the profile held when Execute was accepted.
C19_RunStepsFixed ==
    \A r \in DOMAIN runs :
        \A j \in DOMAIN runs[r].sent :
            /\ j <= Len(runs[r].steps0)
            /\ runs[r].sent[j].bytes =
                   BytesToSend(runs[r].is_hex, runs[r].steps0[j].cmd).bytes

====
